---- MODULE Spec2Model ----
(***************************************************************************)
(* Model of the mockup-canvas application: the image geometry helpers      *)
(* (resizeImage, cropToOriginalAspectRatio), the two-call pipeline         *)
(* generateCompositeImage, and the App component's view state, handlers,   *)
(* render body and effects.                                                *)
(*                                                                         *)
(* JavaScript numbers are modelled as exact rationals <<n, d>> (d > 0, in  *)
(* lowest terms).  Canvas dimensions are integers: assigning a number to   *)
(* canvas.width / canvas.height truncates it.                              *)
(***************************************************************************)
EXTENDS Integers, Sequences, FiniteSets, TLC

\* ---------------------------------------------------------------- bounds
\* Largest side of the images enumerated exhaustively.
MaxSide == 4
\* Largest target dimension enumerated exhaustively for the geometry helpers.
MaxTarget == 4
\* Largest side of the files the user can pick, enumerated exhaustively.
MaxFileSide == 2
\* Number of distinct object-URL names available to the browser.
MaxUrls == 4

\* ------------------------------------------------------ program constants
MAX_DIMENSION == 1024
LoadingMessagesLength == 6

\* ------------------------------------------------------------- rationals
RECURSIVE GCD(_, _)
GCD(a, b) == IF b = 0 THEN a ELSE GCD(b, a % b)

Abs(n) == IF n < 0 THEN -n ELSE n

\* The rational n/d in lowest terms, d > 0.
Rat(n, d) ==
    LET s == IF d < 0 THEN -1 ELSE 1
        g == GCD(Abs(n), Abs(d))
    IN  <<(s * n) \div g, (s * d) \div g>>

Num(k) == <<k, 1>>
RDiv(a, b) == Rat(a[1] * b[2], a[2] * b[1])
RMul(a, b) == Rat(a[1] * b[1], a[2] * b[2])
RSub(a, b) == Rat(a[1] * b[2] - b[1] * a[2], a[2] * b[2])
RAdd(a, b) == Rat(a[1] * b[2] + b[1] * a[2], a[2] * b[2])
RGt(a, b) == a[1] * b[2] > b[1] * a[2]
RLeq(a, b) == ~RGt(a, b)

\* Assignment of a non-negative number to an unsigned-long attribute
\* (canvas.width, canvas.height): the fraction is dropped.
ToUnsignedLong(r) == r[1] \div r[2]

\* --------------------------------------------------------------- geometry
\* resizeImage, lines 84-110: the canvas and the rectangle drawImage fills.
ResizeWrongBranch(imgWidth, imgHeight, targetDimension) ==
    LET aspectRatio == RDiv(Num(imgWidth), Num(imgHeight))
        landscape == RGt(aspectRatio, Num(1))
        newWidth == IF landscape THEN RMul(Num(targetDimension), aspectRatio)
                                 ELSE Num(targetDimension)
        newHeight == IF landscape THEN Num(targetDimension)
                                  ELSE RDiv(Num(targetDimension), aspectRatio)
    IN  [canvasWidth |-> targetDimension,
         canvasHeight |-> targetDimension,
         x |-> RDiv(RSub(Num(targetDimension), newWidth), Num(2)),
         y |-> RDiv(RSub(Num(targetDimension), newHeight), Num(2)),
         width |-> newWidth,
         height |-> newHeight]

resizeImage(imgWidth, imgHeight, targetDimension) ==
    LET aspectRatio == RDiv(Num(imgWidth), Num(imgHeight))
        landscape == RGt(aspectRatio, Num(1))
        newWidth == IF landscape THEN Num(targetDimension)
                                 ELSE RMul(Num(targetDimension), aspectRatio)
        newHeight == IF landscape THEN RDiv(Num(targetDimension), aspectRatio)
                                  ELSE Num(targetDimension)
    IN  [canvasWidth |-> targetDimension,
         canvasHeight |-> targetDimension,
         x |-> RDiv(RSub(Num(targetDimension), newWidth), Num(2)),
         y |-> RDiv(RSub(Num(targetDimension), newHeight), Num(2)),
         width |-> newWidth,
         height |-> newHeight]

\* cropToOriginalAspectRatio, lines 40-62: the canvas it creates and the
\* source rectangle it hands to drawImage.
CropNotCentered(originalWidth, originalHeight, targetDimension) ==
    LET aspectRatio == RDiv(Num(originalWidth), Num(originalHeight))
        landscape == RGt(aspectRatio, Num(1))
        contentWidth == IF landscape THEN Num(targetDimension)
                                     ELSE RMul(Num(targetDimension), aspectRatio)
        contentHeight == IF landscape THEN RDiv(Num(targetDimension), aspectRatio)
                                      ELSE Num(targetDimension)
    IN  [canvasWidth |-> ToUnsignedLong(contentWidth),
         canvasHeight |-> ToUnsignedLong(contentHeight),
         x |-> RSub(Num(targetDimension), contentWidth),
         y |-> RSub(Num(targetDimension), contentHeight),
         width |-> contentWidth,
         height |-> contentHeight]

cropToOriginalAspectRatio(originalWidth, originalHeight, targetDimension) ==
    LET aspectRatio == RDiv(Num(originalWidth), Num(originalHeight))
        landscape == RGt(aspectRatio, Num(1))
        contentWidth == IF landscape THEN Num(targetDimension)
                                     ELSE RMul(Num(targetDimension), aspectRatio)
        contentHeight == IF landscape THEN RDiv(Num(targetDimension), aspectRatio)
                                      ELSE Num(targetDimension)
    IN  [canvasWidth |-> ToUnsignedLong(contentWidth),
         canvasHeight |-> ToUnsignedLong(contentHeight),
         x |-> RDiv(RSub(Num(targetDimension), contentWidth), Num(2)),
         y |-> RDiv(RSub(Num(targetDimension), contentHeight), Num(2)),
         width |-> contentWidth,
         height |-> contentHeight]

\* The rectangle part of a canvas record.
RectOf(c) == [x |-> c.x, y |-> c.y, width |-> c.width, height |-> c.height]

\* ------------------------------------------------------------------ values
\* Absent values, one per type.
NullFile == [width |-> 0, height |-> 0]
NullUrl == 0
NullDesign == [imageUrl |-> NullUrl]
NullError == <<>>
NullDataUrl == [width |-> -1, height |-> -1]
None == <<>>
Some(v) == <<v>>

\* A File is known by the intrinsic size of the image it holds.
File(w, h) == [width |-> w, height |-> h]
SampleFiles == {File(1920, 1080), File(2048, 1)}
Files == {File(w, h) : w \in 1..MaxFileSide, h \in 1..MaxFileSide} \cup SampleFiles

\* Parts of a GenerateContentResponse.
TextPart == [text |-> "here is the image", inlineData |-> None]
ImagePart(d) == [text |-> "", inlineData |-> Some([mimeType |-> "image/png", data |-> d])]
Candidate(parts) == [content |-> Some([parts |-> Some(parts)])]
Responses ==
    { [candidates |-> None],
      [candidates |-> Some(<<>>)],
      [candidates |-> Some(<<[content |-> None]>>)],
      [candidates |-> Some(<<[content |-> Some([parts |-> None])]>>)],
      [candidates |-> Some(<<Candidate(<<TextPart>>)>>)],
      [candidates |-> Some(<<Candidate(<<ImagePart("a")>>)>>)],
      [candidates |-> Some(<<Candidate(<<TextPart, ImagePart("a")>>)>>)],
      [candidates |-> Some(<<Candidate(<<ImagePart("a"), TextPart, ImagePart("b")>>)>>)],
      [candidates |-> Some(<<Candidate(<<TextPart>>), Candidate(<<ImagePart("b")>>)>>)] }
NoResponse == [candidates |-> None]

\* Texts the description model can answer with.
DescriptionTexts == {"", "The target is the large computer monitor in the center of the image."}

\* ---------------------------------------------------------------- variables
VARIABLES
    \* useState of App
    selectedDesign, designImageFile, contextImage, isLoading, error,
    loadingMessageIndex, generatedImageUrl,
    \* the committed render and the browser's blob URL store
    contextImageUrl, objectUrls, mounted,
    \* the generateCompositeImage / handleGenerate invocation in flight
    pc, args, calls, completed, originalWidth, originalHeight,
    resizedDesignImage, resizedContextImage, semanticLocationDescription,
    response, cropCall, finalImageUrl, failure, rejection,
    \* the number of generateCompositeImage promises not yet settled
    inFlight,
    \* the geometry helpers applied on their own
    geom

appVars == <<selectedDesign, designImageFile, contextImage, isLoading, error,
             loadingMessageIndex, generatedImageUrl>>
urlVars == <<contextImageUrl, objectUrls, mounted>>
runVars == <<pc, args, calls, completed, originalWidth, originalHeight,
             resizedDesignImage, resizedContextImage, semanticLocationDescription,
             response, cropCall, finalImageUrl, failure, rejection, inFlight>>
vars == <<appVars, urlVars, runVars, geom>>

NoCanvas == [canvasWidth |-> 0, canvasHeight |-> 0, x |-> Num(0), y |-> Num(0),
             width |-> Num(0), height |-> Num(0)]
NoCropCall == [imageDataUrl |-> None, originalWidth |-> 0, originalHeight |-> 0,
               targetDimension |-> 0]
NoRejection == [at |-> "", isError |-> FALSE, message |-> ""]
NoFailure == [kind |-> "none"]
NoArgs == [designImage |-> NullFile, contextImage |-> NullFile]
GeomIdle == [stage |-> "idle", w |-> 0, h |-> 0, target |-> 0,
             padded |-> NoCanvas, cropped |-> NoCanvas]

\* The locals of an invocation that has not started.
RunIdle ==
    /\ pc = "idle"
    /\ args = NoArgs
    /\ calls = <<>>
    /\ completed = 0
    /\ originalWidth = 0
    /\ originalHeight = 0
    /\ resizedDesignImage = NoCanvas
    /\ resizedContextImage = NoCanvas
    /\ semanticLocationDescription = ""
    /\ response = NoResponse
    /\ cropCall = NoCropCall
    /\ finalImageUrl = NullDataUrl
    /\ failure = NoFailure
    /\ rejection = NoRejection
    /\ inFlight = 0

\* The frame of a settled invocation is dropped.
ForgetRun ==
    /\ pc' = "idle"
    /\ args' = NoArgs
    /\ calls' = <<>>
    /\ completed' = 0
    /\ originalWidth' = 0
    /\ originalHeight' = 0
    /\ resizedDesignImage' = NoCanvas
    /\ resizedContextImage' = NoCanvas
    /\ semanticLocationDescription' = ""
    /\ response' = NoResponse
    /\ cropCall' = NoCropCall
    /\ finalImageUrl' = NullDataUrl
    /\ failure' = NoFailure
    /\ rejection' = NoRejection
    /\ UNCHANGED inFlight

Init ==
    /\ selectedDesign = NullDesign
    /\ designImageFile = NullFile
    /\ contextImage = NullFile
    /\ isLoading = FALSE
    /\ error = NullError
    /\ loadingMessageIndex = 0
    /\ generatedImageUrl = NullDataUrl
    /\ contextImageUrl = NullUrl
    /\ objectUrls = {}
    /\ mounted = TRUE
    /\ RunIdle
    /\ geom = GeomIdle

\* ------------------------------------------------------ render and effects
\* renderContent, lines 416-504: which of the four views is rendered.
View ==
    IF error # NullError THEN "error"
    ELSE IF isLoading THEN "loading"
    ELSE IF generatedImageUrl # NullDataUrl THEN "result"
    ELSE "upload"

\* Line 315.
designImageUrl == selectedDesign.imageUrl

\* Lines 487-493: the Generate button is rendered.
GenerateOffered == View = "upload" /\ designImageFile # NullFile /\ contextImage # NullFile

\* URL.createObjectURL returns a name no live or still-referenced URL has.
HasFreshUrl(inUse) == (1..MaxUrls) \ inUse # {}
FreshUrl(inUse) == CHOOSE u \in (1..MaxUrls) \ inUse : \A v \in (1..MaxUrls) \ inUse : u <= v

\* Lines 389-393: the cleanup of the effect keyed on contextImageUrl runs
\* when the key changes, with the URL of the render that registered it.
ContextCleanupSkipped(urls, oldUrl, newUrl) == urls

ContextUrlCleanup(urls, oldUrl, newUrl) ==
    IF oldUrl # newUrl /\ oldUrl # NullUrl THEN urls \ {oldUrl} ELSE urls

\* Lines 395-401: the same for designImageUrl; object URLs start with blob:.
DesignUrlCleanup(urls, oldUrl, newUrl) ==
    IF oldUrl # newUrl /\ oldUrl # NullUrl /\ oldUrl \in 1..MaxUrls
    THEN urls \ {oldUrl} ELSE urls

\* A render of App (line 314) committed after a state change, followed by
\* the effect cleanups of the previous render.
Commit(newContextImage, newDesign, urls) ==
    LET inUse == urls \cup {contextImageUrl, designImageUrl, newDesign.imageUrl}
        newContextUrl == IF newContextImage # NullFile THEN FreshUrl(inUse) ELSE NullUrl
        created == urls \cup ({newContextUrl} \ {NullUrl})
        afterContext == ContextUrlCleanup(created, contextImageUrl, newContextUrl)
    IN  /\ newContextImage # NullFile => HasFreshUrl(inUse)
        /\ contextImageUrl' = newContextUrl
        /\ objectUrls' = DesignUrlCleanup(afterContext, designImageUrl, newDesign.imageUrl)

\* A re-render that leaves the files as they are.
Rerender == Commit(contextImage, selectedDesign, objectUrls)

\* ------------------------------------------------------------ App handlers
\* onFileSelect={setContextImage}, line 473.
SetContextImage(file) ==
    /\ mounted
    /\ View = "upload"
    /\ contextImage' = file
    /\ Commit(file, selectedDesign, objectUrls)
    /\ UNCHANGED <<selectedDesign, designImageFile, isLoading, error,
                   loadingMessageIndex, generatedImageUrl, mounted, runVars, geom>>

\* handleDesignImageUpload, lines 317-333.
HandleDesignImageUpload(file, thrown) ==
    /\ mounted
    /\ View = "upload"
    /\ IF ~thrown
       THEN LET inUse == objectUrls \cup {contextImageUrl, designImageUrl}
                imageUrl == FreshUrl(inUse)
                design == [imageUrl |-> imageUrl]
            IN  /\ HasFreshUrl(inUse)
                /\ error' = NullError
                /\ designImageFile' = file
                /\ selectedDesign' = design
                /\ Commit(contextImage, design, objectUrls \cup {imageUrl})
       ELSE /\ error' = <<"Could not load the design image. Details:", "createObjectURL failed">>
            /\ Rerender
            /\ UNCHANGED <<designImageFile, selectedDesign>>
    /\ UNCHANGED <<contextImage, isLoading, loadingMessageIndex, generatedImageUrl,
                   mounted, runVars, geom>>

\* handleGenerate up to its await, lines 335-349, with generateCompositeImage
\* up to its first await, lines 164-167, and the effect of lines 403-414.
\* Line 336: the guard of handleGenerate.
MissingFilesUnchecked == FALSE

MissingFiles ==
    designImageFile = NullFile \/ contextImage = NullFile \/ selectedDesign = NullDesign

handleGenerate ==
    /\ mounted
    /\ IF MissingFiles
       THEN /\ error' = <<"An unexpected error occurred. Please upload both a design and context file.">>
            /\ UNCHANGED <<isLoading, generatedImageUrl, loadingMessageIndex, runVars>>
       ELSE /\ isLoading' = TRUE
            /\ error' = NullError
            /\ generatedImageUrl' = NullDataUrl
            /\ loadingMessageIndex' = 0
            /\ pc' = "measure"
            /\ args' = [designImage |-> designImageFile, contextImage |-> contextImage]
            /\ calls' = <<"getImageDimensions">>
            /\ completed' = 0
            /\ originalWidth' = 0
            /\ originalHeight' = 0
            /\ resizedDesignImage' = NoCanvas
            /\ resizedContextImage' = NoCanvas
            /\ semanticLocationDescription' = ""
            /\ response' = NoResponse
            /\ cropCall' = NoCropCall
            /\ finalImageUrl' = NullDataUrl
            /\ failure' = NoFailure
            /\ rejection' = NoRejection
            /\ inFlight' = inFlight + 1
    /\ Rerender
    /\ UNCHANGED <<selectedDesign, designImageFile, contextImage, mounted, geom>>

\* The Generate button (lines 488-493) is clicked.
HandleGenerate ==
    /\ GenerateOffered
    /\ handleGenerate

\* handleGenerate is called in the upload view whether or not the button is
\* rendered: its own guard (lines 336-339) decides.
HandleGenerateCalled ==
    /\ View = "upload"
    /\ handleGenerate

\* The interval of lines 403-414 fires while isLoading.
Tick ==
    /\ mounted
    /\ isLoading
    /\ loadingMessageIndex' = (loadingMessageIndex + 1) % LoadingMessagesLength
    /\ Rerender
    /\ UNCHANGED <<selectedDesign, designImageFile, contextImage, isLoading, error,
                   generatedImageUrl, mounted, runVars, geom>>

\* handleReset, lines 371-378: the values it sets.
ResetKeepsContext ==
    [selectedDesign |-> NullDesign, designImageFile |-> NullFile,
     contextImage |-> contextImage, error |-> NullError, isLoading |-> FALSE,
     generatedImageUrl |-> NullDataUrl]

handleReset ==
    [selectedDesign |-> NullDesign, designImageFile |-> NullFile,
     contextImage |-> NullFile, error |-> NullError, isLoading |-> FALSE,
     generatedImageUrl |-> NullDataUrl]

\* The Try Again button (line 423) and the Start Over button (line 456).
\* The frame of the settled invocation is gone by then.
HandleReset ==
    /\ mounted
    /\ View \in {"error", "result"}
    /\ selectedDesign' = handleReset.selectedDesign
    /\ designImageFile' = handleReset.designImageFile
    /\ contextImage' = handleReset.contextImage
    /\ error' = handleReset.error
    /\ isLoading' = handleReset.isLoading
    /\ generatedImageUrl' = handleReset.generatedImageUrl
    /\ Commit(handleReset.contextImage, handleReset.selectedDesign, objectUrls)
    /\ ForgetRun
    /\ UNCHANGED <<loadingMessageIndex, mounted, geom>>

\* App is unmounted: every effect's cleanup runs (lines 390-392, 396-400).
Unmount ==
    /\ mounted
    /\ mounted' = FALSE
    /\ objectUrls' = DesignUrlCleanup(ContextUrlCleanup(objectUrls, contextImageUrl, NullUrl),
                                      designImageUrl, NullUrl)
    /\ UNCHANGED <<appVars, contextImageUrl, runVars, geom>>

\* --------------------------------------------------- generateCompositeImage
\* One action per await of the invocation, taken when the awaited promise
\* settles; its outcome is the environment's choice.  The files are those the
\* call was given (args).  The steps of an invocation whose App has been
\* unmounted are not followed: its state setters no longer have any effect.
\* Errors the helpers reject with.
Ok == [kind |-> "ok"]
Err(m) == [kind |-> "error", isError |-> TRUE, message |-> m]
\* What the two generateContent calls resolve with.
Text(t) == [kind |-> "text", text |-> t]
Resp(r) == [kind |-> "response", response |-> r]
\* getImageDimensions, lines 16, 23, 25.
MeasureErrors == {Err("Failed to read file."), Err("Image load error"),
                  Err("File reader error")}
\* resizeImage, lines 79, 90, 119, 123, 125.
ResizeErrors == {Err("Failed to read file."), Err("Could not get canvas context."),
                 Err("Canvas to Blob conversion failed."), Err("Image load error"),
                 Err("File reader error")}
\* fileToPart, lines 135 (rejects with the reader's event, not an Error), 139, 141.
FileToPartErrors == {[kind |-> "error", isError |-> FALSE, message |-> "ProgressEvent"],
                     Err("Invalid data URL"),
                     Err("Could not parse MIME type from data URL")}
\* cropToOriginalAspectRatio, lines 59, 66.
CropErrors == {Err("Could not get canvas context for cropping."),
               Err("Image load error during cropping")}
\* ai.models.generateContent rejecting (network, credential, quota).
ApiErrors == {Err("ApiError")}

\* The catch of handleGenerate, lines 361-367: the state it sets.
CatchKeepsLoading(err) ==
    [error |-> <<"Failed to generate the image.",
                 IF err.isError THEN err.message ELSE "An unknown error occurred.">>,
     isLoading |-> TRUE]

handleGenerateCatch(err) ==
    [error |-> <<"Failed to generate the image.",
                 IF err.isError THEN err.message ELSE "An unknown error occurred.">>,
     isLoading |-> FALSE]

\* A step of the invocation fails with `cause`; the invocation rejects at `at`
\* with err; the rejection reaches the catch of handleGenerate in the same turn
\* of the event loop, and App re-renders.
Fail(at, cause, err) ==
    /\ pc' = "failed"
    /\ failure' = cause
    /\ inFlight' = inFlight - 1
    /\ rejection' = [at |-> at, isError |-> err.isError, message |-> err.message]
    /\ error' = handleGenerateCatch(err).error
    /\ isLoading' = handleGenerateCatch(err).isLoading
    /\ Rerender
    /\ UNCHANGED <<selectedDesign, designImageFile, contextImage, loadingMessageIndex,
                   generatedImageUrl, mounted, args, geom>>

\* The invocation goes on to its next await: nothing App holds changes.
Continue(nextPc, nextCall) ==
    /\ pc' = nextPc
    /\ calls' = Append(calls, nextCall)
    /\ completed' = completed + 1
    /\ UNCHANGED <<appVars, urlVars, args, failure, rejection, inFlight, geom>>

\* Line 167: the image whose dimensions are measured.
MeasuresDesign(designImage, context) == designImage

MeasuredImage(designImage, context) == context

\* Line 167 settles.
MeasureDone(outcome) ==
    /\ mounted
    /\ pc = "measure"
    /\ IF outcome.kind = "ok"
       THEN /\ originalWidth' = MeasuredImage(args.designImage, args.contextImage).width
            /\ originalHeight' = MeasuredImage(args.designImage, args.contextImage).height
            /\ Continue("resizeDesign", "resizeImage")
       ELSE /\ Fail("measure", outcome, outcome)
            /\ UNCHANGED <<calls, completed, originalWidth, originalHeight>>
    /\ UNCHANGED <<resizedDesignImage, resizedContextImage, semanticLocationDescription,
                   response, cropCall, finalImageUrl>>

\* Line 172 settles.
ResizeDesignDone(outcome) ==
    /\ mounted
    /\ pc = "resizeDesign"
    /\ IF outcome.kind = "ok"
       THEN /\ resizedDesignImage' = resizeImage(args.designImage.width,
                                                 args.designImage.height, MAX_DIMENSION)
            /\ Continue("resizeContext", "resizeImage")
       ELSE /\ Fail("resizeDesign", outcome, outcome)
            /\ UNCHANGED <<calls, completed, resizedDesignImage>>
    /\ UNCHANGED <<originalWidth, originalHeight, resizedContextImage,
                   semanticLocationDescription, response, cropCall, finalImageUrl>>

\* Line 173 settles.
ResizeContextDone(outcome) ==
    /\ mounted
    /\ pc = "resizeContext"
    /\ IF outcome.kind = "ok"
       THEN /\ resizedContextImage' = resizeImage(args.contextImage.width,
                                                  args.contextImage.height, MAX_DIMENSION)
            /\ Continue("contextPart", "fileToPart")
       ELSE /\ Fail("resizeContext", outcome, outcome)
            /\ UNCHANGED <<calls, completed, resizedContextImage>>
    /\ UNCHANGED <<originalWidth, originalHeight, resizedDesignImage,
                   semanticLocationDescription, response, cropCall, finalImageUrl>>

\* Line 177 settles; on success the description call of lines 196-199 is issued.
ContextPartDone(outcome) ==
    /\ mounted
    /\ pc = "contextPart"
    /\ IF outcome.kind = "ok"
       THEN Continue("describe", "generateContent gemini-2.5-flash-lite")
       ELSE /\ Fail("contextPart", outcome, outcome)
            /\ UNCHANGED <<calls, completed>>
    /\ UNCHANGED <<originalWidth, originalHeight, resizedDesignImage, resizedContextImage,
                   semanticLocationDescription, response, cropCall, finalImageUrl>>

\* The catch of lines 202-205.
DescribeSwallowsError == [rethrow |-> FALSE, error |-> Err("The AI failed to analyze the context image.")]

DescribeOnError == [rethrow |-> TRUE, error |-> Err("The AI failed to analyze the context image.")]

\* Lines 196-205: the description call settles; line 209 follows.
DescribeDone(outcome) ==
    /\ mounted
    /\ pc = "describe"
    /\ IF outcome.kind = "text"
       THEN /\ semanticLocationDescription' = outcome.text
            /\ Continue("designPart", "fileToPart")
       ELSE IF DescribeOnError.rethrow
       THEN /\ Fail("describe", outcome, DescribeOnError.error)
            /\ UNCHANGED <<calls, completed, semanticLocationDescription>>
       ELSE /\ pc' = "designPart"
            /\ calls' = Append(calls, "fileToPart")
            /\ failure' = outcome
            /\ UNCHANGED <<appVars, urlVars, args, rejection, inFlight, geom, completed,
                           semanticLocationDescription>>
    /\ UNCHANGED <<originalWidth, originalHeight, resizedDesignImage, resizedContextImage,
                   response, cropCall, finalImageUrl>>

\* Line 209 settles; on success the composition call of lines 238-241 is issued.
DesignPartDone(outcome) ==
    /\ mounted
    /\ pc = "designPart"
    /\ IF outcome.kind = "ok"
       THEN Continue("compose", "generateContent gemini-2.5-flash-image")
       ELSE /\ Fail("designPart", outcome, outcome)
            /\ UNCHANGED <<calls, completed>>
    /\ UNCHANGED <<originalWidth, originalHeight, resizedDesignImage, resizedContextImage,
                   semanticLocationDescription, response, cropCall, finalImageUrl>>

\* Array.prototype.find with the predicate part => part.inlineData.
RECURSIVE FindInlineData(_)
FindInlineData(parts) ==
    IF parts = <<>> THEN None
    ELSE IF Head(parts).inlineData # None THEN Some(Head(parts))
    ELSE FindInlineData(Tail(parts))

RECURSIVE FindLastInlineData(_)
FindLastInlineData(parts) ==
    IF parts = <<>> THEN None
    ELSE IF parts[Len(parts)].inlineData # None THEN Some(parts[Len(parts)])
    ELSE FindLastInlineData(SubSeq(parts, 1, Len(parts) - 1))

\* Line 245: response.candidates?.[0]?.content?.parts?.find(...).
ImagePartLastMatch(resp) ==
    IF resp.candidates = None THEN None
    ELSE IF resp.candidates[1] = <<>> THEN None
    ELSE IF resp.candidates[1][1].content = None THEN None
    ELSE IF resp.candidates[1][1].content[1].parts = None THEN None
    ELSE FindLastInlineData(resp.candidates[1][1].content[1].parts[1])

imagePartFromResponse(resp) ==
    IF resp.candidates = None THEN None
    ELSE IF resp.candidates[1] = <<>> THEN None
    ELSE IF resp.candidates[1][1].content = None THEN None
    ELSE IF resp.candidates[1][1].content[1].parts = None THEN None
    ELSE FindInlineData(resp.candidates[1][1].content[1].parts[1])

\* Lines 238-264: the composition call settles, the response is scanned and
\* the crop is started or the invocation throws.
ComposeDone(outcome) ==
    /\ mounted
    /\ pc = "compose"
    /\ IF outcome.kind = "response"
       THEN /\ response' = outcome.response
            /\ IF imagePartFromResponse(outcome.response) # None
               THEN /\ cropCall' = [imageDataUrl |-> imagePartFromResponse(outcome.response)[1].inlineData,
                                    originalWidth |-> originalWidth,
                                    originalHeight |-> originalHeight,
                                    targetDimension |-> MAX_DIMENSION]
                    /\ Continue("crop", "cropToOriginalAspectRatio")
               ELSE /\ Fail("scan", Err("no inline image part"),
                            Err("The AI model did not return an image. Please try again."))
                    /\ completed' = completed + 1
                    /\ UNCHANGED <<calls, cropCall>>
       ELSE /\ Fail("compose", outcome, outcome)
            /\ UNCHANGED <<calls, completed, response, cropCall>>
    /\ UNCHANGED <<originalWidth, originalHeight, resizedDesignImage, resizedContextImage,
                   semanticLocationDescription, finalImageUrl>>

\* Lines 253-260 settle; handleGenerate goes on to lines 352-360.
CropDone(outcome) ==
    /\ mounted
    /\ pc = "crop"
    /\ IF outcome.kind = "ok"
       THEN LET canvas == cropToOriginalAspectRatio(cropCall.originalWidth,
                                                    cropCall.originalHeight,
                                                    cropCall.targetDimension)
            IN  /\ finalImageUrl' = [width |-> canvas.canvasWidth, height |-> canvas.canvasHeight]
                /\ pc' = "preload"
                /\ completed' = completed + 1
                /\ inFlight' = inFlight - 1
                /\ UNCHANGED <<appVars, urlVars, args, failure, rejection, geom, calls>>
       ELSE /\ Fail("crop", outcome, outcome)
            /\ UNCHANGED <<calls, completed, finalImageUrl>>
    /\ UNCHANGED <<originalWidth, originalHeight, resizedDesignImage, resizedContextImage,
                   semanticLocationDescription, response, cropCall>>

\* img.onload of lines 354-357; an empty canvas encodes to "data:,", which
\* is no image.
PreloadOnload ==
    /\ mounted
    /\ pc = "preload"
    /\ finalImageUrl.width >= 1
    /\ finalImageUrl.height >= 1
    /\ generatedImageUrl' = finalImageUrl
    /\ isLoading' = FALSE
    /\ pc' = "shown"
    /\ Rerender
    /\ UNCHANGED <<selectedDesign, designImageFile, contextImage, error,
                   loadingMessageIndex, mounted, args, calls, completed, originalWidth,
                   originalHeight, resizedDesignImage, resizedContextImage,
                   semanticLocationDescription, response, cropCall, finalImageUrl,
                   failure, rejection, inFlight, geom>>

\* img.onerror of lines 358-360 throws inside the event handler: no catch is
\* on the stack and no state is set.  The browser may fail to decode any data
\* URL; it always fails on "data:,".
PreloadOnerror ==
    /\ mounted
    /\ pc = "preload"
    /\ pc' = "preloadFailed"
    /\ UNCHANGED <<appVars, urlVars, args, calls, completed, originalWidth, originalHeight,
                   resizedDesignImage, resizedContextImage, semanticLocationDescription,
                   response, cropCall, finalImageUrl, failure, rejection, inFlight, geom>>

\* ------------------------------------------------------------ specification
\* Every step but the start of a generation.
OtherSteps ==
    \/ \E file \in Files : SetContextImage(file)
    \/ \E file \in Files, thrown \in BOOLEAN : HandleDesignImageUpload(file, thrown)
    \/ Tick
    \/ HandleReset
    \/ Unmount
    \/ \E outcome \in {Ok} \cup MeasureErrors : MeasureDone(outcome)
    \/ \E outcome \in {Ok} \cup ResizeErrors : ResizeDesignDone(outcome)
    \/ \E outcome \in {Ok} \cup ResizeErrors : ResizeContextDone(outcome)
    \/ \E outcome \in {Ok} \cup FileToPartErrors : ContextPartDone(outcome)
    \/ \E outcome \in {Text(t) : t \in DescriptionTexts} \cup ApiErrors : DescribeDone(outcome)
    \/ \E outcome \in {Ok} \cup FileToPartErrors : DesignPartDone(outcome)
    \/ \E outcome \in {Resp(r) : r \in Responses} \cup ApiErrors : ComposeDone(outcome)
    \/ \E outcome \in {Ok} \cup CropErrors : CropDone(outcome)
    \/ PreloadOnload
    \/ PreloadOnerror

Next == HandleGenerate \/ OtherSteps

Spec == Init /\ [][Next]_vars

\* The same application with handleGenerate called directly.
HandlerNext == HandleGenerateCalled \/ OtherSteps

HandlerSpec == Init /\ [][HandlerNext]_vars

\* ------------------------------------------- the geometry helpers on their own
GeomSamples == {<<1920, 1080, MAX_DIMENSION>>, <<1080, 1920, MAX_DIMENSION>>,
                <<1, 1, MAX_DIMENSION>>, <<10, 1, MAX_DIMENSION>>,
                <<1, 10, MAX_DIMENSION>>, <<2048, 1, MAX_DIMENSION>>}
GeomInputs == {<<w, h, t>> : w \in 1..MaxSide, h \in 1..MaxSide, t \in 1..MaxTarget}
                  \cup GeomSamples

GeomInit ==
    /\ selectedDesign = NullDesign
    /\ designImageFile = NullFile
    /\ contextImage = NullFile
    /\ isLoading = FALSE
    /\ error = NullError
    /\ loadingMessageIndex = 0
    /\ generatedImageUrl = NullDataUrl
    /\ contextImageUrl = NullUrl
    /\ objectUrls = {}
    /\ mounted = TRUE
    /\ RunIdle
    /\ \E in \in GeomInputs :
          geom = [stage |-> "input", w |-> in[1], h |-> in[2], target |-> in[3],
                  padded |-> NoCanvas, cropped |-> NoCanvas]

\* resizeImage applied to an image of geom.w x geom.h.
GeomPad ==
    /\ geom.stage = "input"
    /\ geom' = [geom EXCEPT !.stage = "padded",
                            !.padded = resizeImage(geom.w, geom.h, geom.target)]
    /\ UNCHANGED <<appVars, urlVars, runVars>>

\* cropToOriginalAspectRatio applied to the padded square.
GeomCrop ==
    /\ geom.stage = "padded"
    /\ geom' = [geom EXCEPT !.stage = "cropped",
                            !.cropped = cropToOriginalAspectRatio(geom.w, geom.h, geom.target)]
    /\ UNCHANGED <<appVars, urlVars, runVars>>

GeomNext == GeomPad \/ GeomCrop

GeomSpec == GeomInit /\ [][GeomNext]_vars

\* =================================================================== claims
ExpectedCalls ==
    <<"getImageDimensions", "resizeImage", "resizeImage", "fileToPart",
      "generateContent gemini-2.5-flash-lite", "fileToPart",
      "generateContent gemini-2.5-flash-image", "cropToOriginalAspectRatio">>

IsPrefix(s, t) == Len(s) <= Len(t) /\ s = SubSeq(t, 1, Len(s))
Count(s, c) == Cardinality({i \in 1..Len(s) : s[i] = c})
DescribeCalls == Count(calls, "generateContent gemini-2.5-flash-lite")
ComposeCalls == Count(calls, "generateContent gemini-2.5-flash-image")
CropCalls == Count(calls, "cropToOriginalAspectRatio")
\* The description call has resolved: five calls have completed.
DescribeReturned == completed >= 5
\* The composition call has resolved: seven calls have completed.
ComposeReturned == completed >= 7

\* C1: when the description call returns the empty string, the invocation
\* fails with the description error and the composition call is never issued.
C1_EmptyDescriptionFails ==
    (DescribeReturned /\ semanticLocationDescription = "")
        => /\ ComposeCalls = 0
           /\ pc = "failed"
           /\ rejection.message = "The AI failed to analyze the context image."

\* The parts of candidate i of a response.
PartsOf(resp, i) ==
    IF resp.candidates[1][i].content = None THEN <<>>
    ELSE IF resp.candidates[1][i].content[1].parts = None THEN <<>>
    ELSE resp.candidates[1][i].content[1].parts[1]
\* Every part with inline data of every candidate of a response, as
\* <<candidate, part>> positions.
InlineParts(resp) ==
    IF resp.candidates = None THEN {}
    ELSE UNION {{<<i, j>> : j \in {k \in 1..Len(PartsOf(resp, i)) :
                                     PartsOf(resp, i)[k].inlineData # None}} :
                i \in 1..Len(resp.candidates[1])}
\* The inline data of the first such part of the first candidate.
FirstInlineData(resp) ==
    LET js == {ij[2] : ij \in {p \in InlineParts(resp) : p[1] = 1}}
        j == CHOOSE k \in js : \A m \in js : k <= m
    IN  PartsOf(resp, 1)[j].inlineData

\* C2: a composition response without any inline image part fails the invocation
\* with the no-image error and the crop is never called; the crop is called only
\* when an inline image part was found, and then on the first such part.
C2_NoImageNoCrop ==
    /\ (ComposeReturned /\ InlineParts(response) = {})
          => /\ pc = "failed"
             /\ rejection.message = "The AI model did not return an image. Please try again."
             /\ CropCalls = 0
             /\ cropCall = NoCropCall
    /\ (CropCalls > 0 \/ cropCall # NoCropCall)
          => /\ ComposeReturned
             /\ \E p \in InlineParts(response) : p[1] = 1
             /\ cropCall.imageDataUrl = FirstInlineData(response)

C2_Witness ==
    /\ pc = "failed"
    /\ rejection.at = "scan"
    /\ response = [candidates |-> Some(<<Candidate(<<TextPart>>)>>)]
    /\ CropCalls = 0

\* C3: the calls of an invocation are issued in the order Measure, Normalize
\* (two resizes, context part), Describe, Compose (design part, composition
\* call), Finalize (crop); each is issued only after all earlier ones completed
\* successfully, each external call at most once, and a description call that
\* errors ends the run with no composition call.
C3_StagesInOrder ==
    /\ IsPrefix(calls, ExpectedCalls)
    /\ DescribeCalls <= 1
    /\ ComposeCalls <= 1
    /\ calls # <<>> => completed \in {Len(calls) - 1, Len(calls)}
    /\ pc \in {"measure", "resizeDesign", "resizeContext", "contextPart", "describe",
               "designPart", "compose", "crop"} => completed = Len(calls) - 1
    /\ ComposeCalls = 1 => DescribeReturned
    /\ (failure # NoFailure /\ DescribeCalls = 1 /\ ~DescribeReturned) => ComposeCalls = 0

C3_Witness ==
    /\ pc = "shown"
    /\ calls = ExpectedCalls
    /\ completed = Len(ExpectedCalls)

\* C4: every failure of a step of a run makes generateCompositeImage reject
\* with an error, and handleGenerate ends with error set, isLoading false and
\* generatedImageUrl null.
C4_FailuresSurface ==
    failure # NoFailure
        => /\ pc = "failed"
           /\ rejection # NoRejection
           /\ rejection.message # ""
           /\ error # NullError
           /\ isLoading = FALSE
           /\ generatedImageUrl = NullDataUrl

C4_Witness ==
    /\ pc = "failed"
    /\ failure = Err("Image load error during cropping")
    /\ error = <<"Failed to generate the image.", "Image load error during cropping">>

\* C5: the pair passed to the crop is the pair measured from the raw context
\* image, the crop's target is the dimension both images were padded to, and
\* nothing between Measure and Finalize changes either.
C5_CropUsesMeasuredPair ==
    /\ completed >= 1
          => /\ originalWidth = args.contextImage.width
             /\ originalHeight = args.contextImage.height
    /\ cropCall # NoCropCall
          => /\ cropCall.originalWidth = args.contextImage.width
             /\ cropCall.originalHeight = args.contextImage.height
             /\ cropCall.targetDimension = resizedDesignImage.canvasWidth
             /\ cropCall.targetDimension = resizedDesignImage.canvasHeight
             /\ cropCall.targetDimension = resizedContextImage.canvasWidth
             /\ cropCall.targetDimension = resizedContextImage.canvasHeight

C5_Witness ==
    /\ pc = "crop"
    /\ args.contextImage = File(1920, 1080)
    /\ args.designImage = File(1, 2)
    /\ cropCall.originalWidth = 1920
    /\ cropCall.originalHeight = 1080

\* C6: the source rectangle the crop extracts equals the rectangle resizeImage
\* drew the content into, for the same (width, height, target); for 1920x1080
\* and target 1024 it is x = 0, y = 224, width = 1024, height = 576.
C6_CropInvertsPad ==
    geom.stage = "cropped"
        => /\ RectOf(geom.cropped) = RectOf(geom.padded)
           /\ (geom.w = 1920 /\ geom.h = 1080 /\ geom.target = 1024)
                 => RectOf(geom.cropped) = [x |-> Num(0), y |-> Num(224),
                                            width |-> Num(1024), height |-> Num(576)]

C6_Witness ==
    /\ geom.stage = "cropped"
    /\ geom.w = 1920
    /\ geom.h = 1080
    /\ geom.target = 1024
    /\ geom.cropped.y = Num(224)

RMax(a, b) == IF RGt(a, b) THEN a ELSE b

\* C7: resizeImage yields a target x target canvas whose content box lies inside
\* the square, is centered, has its longer side equal to the target and keeps
\* the input's width : height ratio.
C7_PadGeometry ==
    geom.stage \in {"padded", "cropped"}
        => LET p == geom.padded
               t == Num(geom.target)
           IN  /\ p.canvasWidth = geom.target
               /\ p.canvasHeight = geom.target
               /\ RLeq(Num(0), p.x)
               /\ RLeq(Num(0), p.y)
               /\ RLeq(RAdd(p.x, p.width), t)
               /\ RLeq(RAdd(p.y, p.height), t)
               /\ p.x = RSub(t, RAdd(p.x, p.width))
               /\ p.y = RSub(t, RAdd(p.y, p.height))
               /\ RMax(p.width, p.height) = t
               /\ RMul(p.width, Num(geom.h)) = RMul(p.height, Num(geom.w))

C7_Witness ==
    /\ geom.stage = "padded"
    /\ geom.w = 10
    /\ geom.h = 1
    /\ geom.target = MAX_DIMENSION
    /\ geom.padded.height = Rat(MAX_DIMENSION, 10)

\* C8: after padding and cropping with the same (w, h, target), both canvas
\* dimensions of the crop are at least 1 and within one pixel of the exact
\* content box.
C8_RoundTrip ==
    geom.stage = "cropped"
        => LET c == geom.cropped
           IN  /\ c.canvasWidth >= 1
               /\ c.canvasHeight >= 1
               /\ RLeq(Num(c.canvasWidth), geom.padded.width)
               /\ RGt(Num(c.canvasWidth + 1), geom.padded.width)
               /\ RLeq(Num(c.canvasHeight), geom.padded.height)
               /\ RGt(Num(c.canvasHeight + 1), geom.padded.height)

\* The object URLs the upload view hands to the two ImageUploader components
\* (lines 474, 482).
Displayed ==
    IF mounted /\ View = "upload" THEN {contextImageUrl, designImageUrl} \ {NullUrl} ELSE {}

InitialViewState ==
    /\ selectedDesign = NullDesign
    /\ designImageFile = NullFile
    /\ contextImage = NullFile
    /\ error = NullError
    /\ generatedImageUrl = NullDataUrl
    /\ isLoading = FALSE

\* C10: from the error view (and from the result view) the only step App takes
\* is the reset, which leaves selectedDesign, designImageFile, contextImage, error
\* and generatedImageUrl null and isLoading false; an invocation starts only
\* with both files present.
C10_ErrorViewOnlyResets ==
    [][/\ (mounted /\ View \in {"error", "result"})
            => (~mounted' \/ (InitialViewState' /\ ~GenerateOffered'))
       /\ (pc # "measure" /\ pc' = "measure")
            => (designImageFile # NullFile /\ contextImage # NullFile)]_vars

C10_Witness ==
    /\ mounted
    /\ InitialViewState
    /\ View = "upload"
    /\ pc = "idle"
    /\ loadingMessageIndex > 0

\* Nothing of the run started by handleGenerate is pending any more: the
\* invocation was rejected and caught, or the preload image fired onload or
\* onerror.
RunEnded == pc \in {"failed", "shown", "preloadFailed"}

\* C11: every generation started by handleGenerate leaves the loading state:
\* once the run has ended, whatever its outcome (a failed preload included),
\* isLoading is false and generatedImageUrl or error is set.
C11_RunLeavesLoading ==
    RunEnded => /\ isLoading = FALSE
                /\ (generatedImageUrl # NullDataUrl \/ error # NullError)

\* C12: at most one generateCompositeImage invocation is in flight; error set
\* implies isLoading false; generatedImageUrl set implies isLoading false and
\* error null; an invocation is started only from the upload view with a design
\* file and a context file present, and the error handleGenerate sets when they
\* are missing comes with no call issued.
C12_ViewConsistent ==
    /\ [](/\ inFlight \in {0, 1}
          /\ error # NullError => isLoading = FALSE
          /\ generatedImageUrl # NullDataUrl => (isLoading = FALSE /\ error = NullError))
    /\ [][/\ inFlight' > inFlight
               => /\ View = "upload"
                  /\ designImageFile # NullFile
                  /\ contextImage # NullFile
                  /\ inFlight = 0
          /\ (error' # error /\ error' =
                <<"An unexpected error occurred. Please upload both a design and context file.">>)
               => /\ designImageFile = NullFile \/ contextImage = NullFile
                  /\ inFlight' = inFlight
                  /\ calls' = calls
                  /\ pc' = pc
                  /\ isLoading' = FALSE]_vars

C12_Witness ==
    /\ mounted
    /\ error = <<"An unexpected error occurred. Please upload both a design and context file.">>
    /\ contextImage # NullFile
    /\ designImageFile = NullFile
    /\ inFlight = 0
    /\ pc = "idle"
    /\ calls = <<>>
    /\ isLoading = FALSE

====
